---- MODULE Spec2Model ----
(***************************************************************************)
(* A model of glim's navigation-and-diff-resolution engine (src/app.rs,    *)
(* src/handlers.rs, src/semantics.rs).                                     *)
(*                                                                         *)
(* Strings are sequences of one-character strings, so that substring       *)
(* search, lower-casing and path splitting are computed and not assumed.   *)
(* Indices keep the code's 0-based values; a Vec v is a TLA+ sequence and  *)
(* v[i] of the code is At(v, i) here.                                      *)
(***************************************************************************)
EXTENDS Integers, Sequences, FiniteSets, TLC

\* app: the App struct of the session (src/app.rs); run: whether the event
\* loop of main still runs, has returned, or the process aborted; last_op: the
\* method the last event called.
VARIABLES app, run, last_op

vars == <<app, run, last_op>>

\* the fields of App
zoom_level == app.zoom_level

modules == app.modules

structures == app.structures

logic_view_content == app.logic_view_content

filtered_structure_indices == app.filtered_structure_indices

selected_index == app.selected_index

source == app.source

error_msg == app.error_msg

dashboard_info == app.dashboard_info

context_lines == app.context_lines

input_mode == app.input_mode

search_query == app.search_query

(***************************************************************************)
(* Bounds of the model.                                                    *)
(***************************************************************************)
\* longest search query the model types
MaxQueryLen == 1
\* largest context_lines value the model lets increase_context reach
MaxContext == 6
\* longest entry list and longest query update_search is applied to on its own
MaxEntries == 2
MaxSearchLen == 3

(***************************************************************************)
(* Vec and String helpers.                                                 *)
(***************************************************************************)
At(v, i) == v[i + 1]

\* the indices 0 .. n-1 in order
Identity(n) == [i \in 1..n |-> i - 1]

Digits == <<"0", "1", "2", "3", "4", "5", "6", "7", "8", "9">>

\* format!("{n}") for the small numbers of the model
NumStr(n) == IF n < 10 THEN <<Digits[n + 1]>>
             ELSE <<Digits[(n \div 10) + 1], Digits[(n % 10) + 1]>>

\* char::to_lowercase on the model's alphabet
LowerChar(c) ==
    CASE c = "A" -> "a"
      [] c = "B" -> "b"
      [] c = "Q" -> "q"
      [] c = "J" -> "j"
      [] c = "R" -> "r"
      [] c = "S" -> "s"
      [] OTHER -> c

to_lowercase(s) == [i \in 1..Len(s) |-> LowerChar(s[i])]

\* str::contains(&needle)
contains(hay, needle) ==
    \E k \in 0..(Len(hay) - Len(needle)) :
        SubSeq(hay, k + 1, k + Len(needle)) = needle

starts_with(s, p) == Len(s) >= Len(p) /\ SubSeq(s, 1, Len(p)) = p

\* position of the last occurrence of character c in s, 0 when there is none
LastPos(s, c) ==
    IF \E i \in 1..Len(s) : s[i] = c
    THEN CHOOSE i \in 1..Len(s) : s[i] = c /\ \A j \in (i + 1)..Len(s) : s[j] # c
    ELSE 0

\* Path::parent as Option<String>: None for the empty path
path_parent(p) ==
    IF p = <<>> THEN [some |-> FALSE, val |-> <<>>]
    ELSE [some |-> TRUE, val |-> SubSeq(p, 1, LastPos(p, "/") - 1)]

path_file_name(p) == SubSeq(p, LastPos(p, "/") + 1, Len(p))

\* Path::extension as Option<String>
path_extension(p) ==
    LET name == path_file_name(p)
        dot  == LastPos(name, ".")
    IN  IF dot <= 1 THEN [some |-> FALSE, val |-> <<>>]
        ELSE [some |-> TRUE, val |-> SubSeq(name, dot + 1, Len(name))]

\* the directory bucket of a changed path ("root" for an empty parent)
RootName == <<"r", "o", "o", "t">>

dir_bucket(p) ==
    LET parent == path_parent(p)
    IN  IF ~parent.some THEN [some |-> FALSE, val |-> <<>>]
        ELSE [some |-> TRUE,
              val |-> IF parent.val = <<>> THEN RootName ELSE parent.val]

(***************************************************************************)
(* The repository behind DataSource::Local (the git2 collaborator).  A     *)
(* file has a content version in the HEAD tree, in the index and in the    *)
(* working directory (0: absent there), the symbols the parser finds in    *)
(* its working-directory text, and the unchanged lines around its change.  *)
(* git2 lists the files in path order; files keeps that order.             *)
(***************************************************************************)
FlagOrder == <<"INDEX_NEW", "INDEX_MODIFIED", "INDEX_DELETED",
               "WT_NEW", "WT_MODIFIED", "WT_DELETED">>

\* git2::Status of one file
status_flags(f) ==
    (IF f.head = 0 /\ f.index # 0 THEN {"INDEX_NEW"} ELSE {})
    \cup (IF f.head # 0 /\ f.index # 0 /\ f.head # f.index
          THEN {"INDEX_MODIFIED"} ELSE {})
    \cup (IF f.head # 0 /\ f.index = 0 THEN {"INDEX_DELETED"} ELSE {})
    \cup (IF f.index = 0 /\ f.workdir # 0 THEN {"WT_NEW"} ELSE {})
    \cup (IF f.index # 0 /\ f.workdir # 0 /\ f.index # f.workdir
          THEN {"WT_MODIFIED"} ELSE {})
    \cup (IF f.index # 0 /\ f.workdir = 0 THEN {"WT_DELETED"} ELSE {})

\* format!("{:?}", entry.status())
status_text(f) == SelectSeq(FlagOrder, LAMBDA x : x \in status_flags(f))

\* repo.statuses(include_untracked): the files that are not clean
repo_statuses(repo) == SelectSeq(repo.files, LAMBDA f : status_flags(f) # {})

is_staged_of(f) ==
    \/ "INDEX_NEW" \in status_flags(f)
    \/ "INDEX_MODIFIED" \in status_flags(f)
    \/ "INDEX_DELETED" \in status_flags(f)

\* SemanticAnalyzer::analyze: symbols only for a path with extension rs
analyze(path, content_symbols) ==
    LET ext == path_extension(path)
    IN  IF ext.some /\ to_lowercase(ext.val) = <<"r", "s">>
        THEN content_symbols
        ELSE <<>>

None == [some |-> FALSE, val |-> 0]

Some(x) == [some |-> TRUE, val |-> x]

\* the file row and the symbol rows scan_local_repo pushes for one status entry
entry_rows(f) ==
    LET file_row == [text |-> f.path, path |-> f.path, is_file |-> TRUE,
                     status |-> status_text(f), line_no |-> None,
                     is_staged |-> is_staged_of(f)]
        symbols == IF f.workdir # 0 THEN analyze(f.path, f.symbols) ELSE <<>>
        sym_row(sym) == [text |-> <<" ", " ">> \o sym.kind \o <<" ">> \o sym.name,
                         path |-> f.path, is_file |-> FALSE,
                         status |-> sym.kind, line_no |-> Some(sym.start_line),
                         is_staged |-> FALSE]
    IN  <<file_row>> \o [i \in 1..Len(symbols) |-> sym_row(symbols[i])]

RECURSIVE rows_of(_)
rows_of(entries) ==
    IF entries = <<>> THEN <<>>
    ELSE entry_rows(Head(entries)) \o rows_of(Tail(entries))

\* dir_counts: HashMap<String, usize> over a sequence of changed paths
dir_counts(paths) ==
    LET keys == {dir_bucket(paths[i]).val :
                    i \in {j \in 1..Len(paths) : dir_bucket(paths[j]).some}}
    IN  [k \in keys |->
            Cardinality({i \in 1..Len(paths) :
                dir_bucket(paths[i]).some /\ dir_bucket(paths[i]).val = k})]

\* the orders in which a HashMap over these keys can be iterated (the hasher
\* is seeded at random, so every order is possible)
IterOrders(keys) ==
    {o \in [1..Cardinality(keys) -> keys] :
        \A i, j \in 1..Cardinality(keys) : i # j => o[i] # o[j]}

\* HashMap::into_iter: the keys present, in the hasher's order
into_iter(counts, order) == SelectSeq(order, LAMBDA k : k \in DOMAIN counts)

U8Mod == 256

HeatStep == 10

HeatCap == 100

\* the heat narrowed to u8 before it is capped
heat_of_narrowed_first(count) ==
    IF (count * HeatStep) % U8Mod < HeatCap
    THEN (count * HeatStep) % U8Mod ELSE HeatCap

\* (count * 10).min(100) as u8
heat_of(count) ==
    (IF count * HeatStep < HeatCap THEN count * HeatStep ELSE HeatCap) % U8Mod

make_module(name, count) ==
    [name |-> name, heat |-> heat_of(count),
     description |-> NumStr(count) \o <<" changed files">>]

\* Vec::sort_by(|a, b| b.heat.cmp(&a.heat)): a stable sort, highest heat first
RECURSIVE insert_by_heat(_, _)
insert_by_heat(sorted, m) ==
    IF sorted = <<>> THEN <<m>>
    ELSE IF m.heat > Head(sorted).heat THEN <<m>> \o sorted
    ELSE <<Head(sorted)>> \o insert_by_heat(Tail(sorted), m)

RECURSIVE sort_by_heat(_)
sort_by_heat(ms) ==
    IF ms = <<>> THEN <<>>
    ELSE insert_by_heat(sort_by_heat(SubSeq(ms, 1, Len(ms) - 1)), ms[Len(ms)])

\* the module list built from dir_counts iterated in the order `order`
aggregate_modules(counts, order) ==
    LET keys == into_iter(counts, order)
    IN  sort_by_heat([i \in 1..Len(keys) |-> make_module(keys[i], counts[keys[i]])])

\* App::scan_local_repo: (modules, structures)
scan_local_repo(repo, order) ==
    LET entries == repo_statuses(repo)
        paths   == [i \in 1..Len(entries) |-> entries[i].path]
    IN  [modules |-> aggregate_modules(dir_counts(paths), order),
         structures |-> rows_of(entries)]

\* the hasher orders over every directory a file of the repository can fall in
scan_orders(repo) ==
    IterOrders(DOMAIN dir_counts([i \in 1..Len(repo.files) |-> repo.files[i].path]))

\* repo.diff_tree_to_workdir_with_index restricted to `path`, printed as a
\* patch and collected line by line with its origin prefix
local_diff_lines(repo, path, context) ==
    LET hits == {i \in 1..Len(repo.files) : repo.files[i].path = path}
    IN  IF hits = {} THEN <<>>
        ELSE LET f   == repo.files[CHOOSE i \in hits : TRUE]
                 now == IF f.index = 0 THEN 0 ELSE f.workdir
                 shown == IF context.hi = 0 /\ context.lo < f.ctx_avail
                          THEN context.lo ELSE f.ctx_avail
                 header == <<" ", "diff --git a/">> \o path \o <<" b/">> \o path
                 hunk  == <<" ", "@@">>
                 ctx   == [i \in 1..shown |-> <<" ", "context ">> \o NumStr(i)]
                 old   == <<"-", "version ">> \o NumStr(f.head)
                 new   == <<"+", "version ">> \o NumStr(now)
             IN  IF f.head = now THEN <<>>
                 ELSE IF f.head = 0 THEN <<header, hunk, new>>
                 ELSE IF now = 0 THEN <<header, hunk, old>>
                 ELSE <<header, hunk>> \o ctx \o <<old, new>>

(***************************************************************************)
(* App: the session object.  Each method of impl App is an operator from   *)
(* the App record to the App record it leaves behind.                      *)
(***************************************************************************)
NoRepo == [has_head |-> FALSE, files |-> <<>>]

NoSource == [kind |-> "None", repo |-> NoRepo, raw_diff |-> <<>>, file_diffs |-> <<>>]

NoDiffLine == <<"No diff available for this file.">>

TrailerLine(line) == <<"--- Focused on Line ">> \o NumStr(line) \o <<" ---">>

\* resolve_diff that leaves the buffer empty for a path the mapping lacks
resolve_diff_silent(a, path) ==
    IF a.source.kind = "Local"
    THEN local_diff_lines(a.source.repo, path, a.context_lines)
    ELSE IF path \in DOMAIN a.source.file_diffs
         THEN a.source.file_diffs[path]
         ELSE <<>>

\* the lines the source resolves for `path` (the match in load_diff)
resolve_diff(a, path) ==
    IF a.source.kind = "Local"
    THEN local_diff_lines(a.source.repo, path, a.context_lines)
    ELSE IF path \in DOMAIN a.source.file_diffs
         THEN a.source.file_diffs[path]
         ELSE <<NoDiffLine>>

\* load_diff that pushes the resolved lines after the lines the buffer holds
load_diff_appending(a) ==
    IF a.structures = <<>> \/ a.source.kind = "None" THEN a
    ELSE LET sel == IF a.selected_index >= Len(a.filtered_structure_indices)
                    THEN 0 ELSE a.selected_index
             kept == [a EXCEPT !.selected_index = sel]
         IN  IF a.filtered_structure_indices = <<>> THEN kept
             ELSE LET item == At(a.structures, At(a.filtered_structure_indices, sel))
                      trailer == IF ~item.is_file /\ item.line_no.some
                                 THEN <<TrailerLine(item.line_no.val)>>
                                 ELSE <<>>
                  IN  [kept EXCEPT !.logic_view_content =
                            @ \o resolve_diff(a, item.path) \o trailer]

\* App::load_diff
load_diff(a) ==
    IF a.structures = <<>> \/ a.source.kind = "None" THEN a
    ELSE LET sel == IF a.selected_index >= Len(a.filtered_structure_indices)
                    THEN 0 ELSE a.selected_index
             cleared == [a EXCEPT !.logic_view_content = <<>>,
                                  !.selected_index = sel]
         IN  IF a.filtered_structure_indices = <<>> THEN cleared
             ELSE LET item == At(a.structures, At(a.filtered_structure_indices, sel))
                      trailer == IF ~item.is_file /\ item.line_no.some
                                 THEN <<TrailerLine(item.line_no.val)>>
                                 ELSE <<>>
                  IN  IF item.path = <<>> THEN cleared
                      ELSE [cleared EXCEPT !.logic_view_content =
                                resolve_diff(a, item.path) \o trailer]

\* matching_indices with the query compared as typed, not lower-cased
matching_indices_as_typed(items, search) ==
    IF search = <<>> THEN [i \in 1..Len(items) |-> i - 1]
    ELSE SelectSeq([i \in 1..Len(items) |-> i - 1],
                   LAMBDA i : contains(to_lowercase(At(items, i).text), search))

\* the filter of update_search: the indices whose text contains the query
matching_indices(items, search) ==
    IF search = <<>> THEN [i \in 1..Len(items) |-> i - 1]
    ELSE LET query == to_lowercase(search)
         IN  SelectSeq([i \in 1..Len(items) |-> i - 1],
                       LAMBDA i : contains(to_lowercase(At(items, i).text), query))

\* update_search with an out-of-bounds selection clamped to the last row
update_search_clamp_last(a) ==
    LET found == matching_indices(a.structures, a.search_query)
        sel   == IF found = <<>> THEN 0
                 ELSE IF a.selected_index >= Len(found) THEN Len(found) - 1
                 ELSE a.selected_index
    IN  load_diff([a EXCEPT !.filtered_structure_indices = found,
                            !.selected_index = sel])

\* App::update_search
update_search(a) ==
    LET found == matching_indices(a.structures, a.search_query)
        sel   == IF found = <<>> \/ a.selected_index >= Len(found)
                 THEN 0 ELSE a.selected_index
    IN  load_diff([a EXCEPT !.filtered_structure_indices = found,
                            !.selected_index = sel])

\* App::enter_search
enter_search(a) ==
    update_search([a EXCEPT !.input_mode = "Editing", !.search_query = <<>>])

\* exit_search that also drops the query, as cancel_search does
exit_search_clearing(a) ==
    update_search([a EXCEPT !.input_mode = "Normal", !.search_query = <<>>])

\* App::exit_search
exit_search(a) == [a EXCEPT !.input_mode = "Normal"]

\* cancel_search that leaves the query and its filter in place
cancel_search_keeping(a) == [a EXCEPT !.input_mode = "Normal"]

\* App::cancel_search
cancel_search(a) ==
    update_search([a EXCEPT !.input_mode = "Normal", !.search_query = <<>>])

\* A u32 is kept at its width as two 16-bit limbs, value = hi * 65536 + lo.
Limb == 65536

U32(n) == [hi |-> n \div Limb, lo |-> n % Limb]

U32Max == [hi |-> Limb - 1, lo |-> Limb - 1]

u32_less(x, y) == x.hi < y.hi \/ (x.hi = y.hi /\ x.lo < y.lo)

\* u32::saturating_add(k) for k < 65536
saturating_add(x, k) ==
    LET lo == x.lo + k
        hi == x.hi + (lo \div Limb)
    IN  IF hi >= Limb THEN U32Max ELSE [hi |-> hi, lo |-> lo % Limb]

\* u32::saturating_sub(k) for k < 65536
saturating_sub(x, k) ==
    IF x.lo >= k THEN [hi |-> x.hi, lo |-> x.lo - k]
    ELSE IF x.hi = 0 THEN U32(0)
    ELSE [hi |-> x.hi - 1, lo |-> x.lo + Limb - k]

\* Ord::max
u32_max(x, y) == IF u32_less(x, y) THEN y ELSE x

ContextStep == 3

\* u32::wrapping_add(k) for k < 65536
wrapping_add(x, k) ==
    [hi |-> (x.hi + ((x.lo + k) \div Limb)) % Limb, lo |-> (x.lo + k) % Limb]

\* increase_context with an addition that wraps at the width of u32
increase_context_wrapping(a) ==
    IF a.zoom_level = "Logic" /\ a.source.kind = "Local"
    THEN load_diff([a EXCEPT !.context_lines = wrapping_add(@, ContextStep)])
    ELSE a

\* App::increase_context
increase_context(a) ==
    IF a.zoom_level = "Logic" /\ a.source.kind = "Local"
    THEN load_diff([a EXCEPT !.context_lines = saturating_add(@, ContextStep)])
    ELSE a

\* App::decrease_context
decrease_context(a) ==
    IF a.zoom_level = "Logic" /\ a.source.kind = "Local"
    THEN load_diff([a EXCEPT !.context_lines =
                        u32_max(saturating_sub(@, ContextStep), U32(1))])
    ELSE a

\* next with the bound one too far: it also moves from the last position
next_past_end(a) ==
    LET max == CASE a.zoom_level = "Galaxy" -> Len(a.modules)
                 [] a.zoom_level = "Structure" -> Len(a.filtered_structure_indices)
                 [] a.zoom_level = "Logic" ->
                        IF Len(a.logic_view_content) < 1 THEN 1
                        ELSE Len(a.logic_view_content)
    IN  IF max > 0 /\ a.selected_index < max
        THEN LET moved == [a EXCEPT !.selected_index = a.selected_index + 1]
             IN  IF a.zoom_level = "Structure" THEN load_diff(moved) ELSE moved
        ELSE a

\* App::next
next(a) ==
    LET max == CASE a.zoom_level = "Galaxy" -> Len(a.modules)
                 [] a.zoom_level = "Structure" -> Len(a.filtered_structure_indices)
                 [] a.zoom_level = "Logic" ->
                        IF Len(a.logic_view_content) < 1 THEN 1
                        ELSE Len(a.logic_view_content)
    IN  IF max > 0 /\ a.selected_index < max - 1
        THEN LET moved == [a EXCEPT !.selected_index = a.selected_index + 1]
             IN  IF a.zoom_level = "Structure" THEN load_diff(moved) ELSE moved
        ELSE a

\* previous that resolves the diff after a move at every zoom level
previous_resolving_everywhere(a) ==
    IF a.selected_index > 0
    THEN load_diff([a EXCEPT !.selected_index = a.selected_index - 1])
    ELSE a

\* App::previous
previous(a) ==
    IF a.selected_index > 0
    THEN LET moved == [a EXCEPT !.selected_index = a.selected_index - 1]
         IN  IF a.zoom_level = "Structure" THEN load_diff(moved) ELSE moved
    ELSE a

\* zoom_in without the guard on an empty filtered list
zoom_in_unguarded(a) ==
    CASE a.zoom_level = "Galaxy" ->
            load_diff([a EXCEPT !.zoom_level = "Structure", !.selected_index = 0])
      [] a.zoom_level = "Structure" ->
            [a EXCEPT !.zoom_level = "Logic", !.selected_index = 0]
      [] a.zoom_level = "Logic" -> a

\* App::zoom_in
zoom_in(a) ==
    CASE a.zoom_level = "Galaxy" ->
            load_diff([a EXCEPT !.zoom_level = "Structure", !.selected_index = 0])
      [] a.zoom_level = "Structure" ->
            IF a.filtered_structure_indices # <<>>
            THEN [a EXCEPT !.zoom_level = "Logic", !.selected_index = 0]
            ELSE a
      [] a.zoom_level = "Logic" -> a

\* zoom_out that leaves selected_index as it is
zoom_out_keeping_selection(a) ==
    CASE a.zoom_level = "Galaxy" -> a
      [] a.zoom_level = "Structure" -> [a EXCEPT !.zoom_level = "Galaxy"]
      [] a.zoom_level = "Logic" -> [a EXCEPT !.zoom_level = "Structure"]

\* zoom_out that leaves the Logic level for the top level
zoom_out_to_top(a) ==
    CASE a.zoom_level = "Galaxy" -> a
      [] OTHER -> [a EXCEPT !.zoom_level = "Galaxy", !.selected_index = 0]

\* App::zoom_out
zoom_out(a) ==
    CASE a.zoom_level = "Galaxy" -> a
      [] a.zoom_level = "Structure" ->
            [a EXCEPT !.zoom_level = "Galaxy", !.selected_index = 0]
      [] a.zoom_level = "Logic" ->
            [a EXCEPT !.zoom_level = "Structure", !.selected_index = 0]

(***************************************************************************)
(* Staging (DataSource::Local only).                                       *)
(***************************************************************************)
file_index(repo, path) ==
    CHOOSE i \in 1..Len(repo.files) : repo.files[i].path = path

\* index.add_path: the index takes the working-directory version
add_path(repo, path) ==
    [repo EXCEPT !.files[file_index(repo, path)].index =
        repo.files[file_index(repo, path)].workdir]

\* repo.reset_default(HEAD, path): the index takes the HEAD version
reset_default(repo, path) ==
    [repo EXCEPT !.files[file_index(repo, path)].index =
        repo.files[file_index(repo, path)].head]

\* index.remove_path
remove_path(repo, path) ==
    [repo EXCEPT !.files[file_index(repo, path)].index = 0]

\* stage_op that adds the path whether or not the row is staged
stage_op_always_add(repo, item) == "staged"

\* the repository operation toggle_stage chooses for the selected file row
stage_op(repo, item) ==
    IF item.is_staged
    THEN IF repo.has_head THEN "reset" ELSE "removed"
    ELSE "staged"

\* the repository after that operation and index.write()
stage_apply(repo, path, op) ==
    CASE op = "reset" -> reset_default(repo, path)
      [] op = "removed" -> remove_path(repo, path)
      [] op = "staged" -> add_path(repo, path)

\* rescan that starts from an empty query, as a first load does
rescan_clearing_query(a, after, scan) ==
    update_search([a EXCEPT !.source.repo = after,
                            !.modules = scan.modules,
                            !.structures = scan.structures,
                            !.search_query = <<>>])

\* rescan that replaces the entries and keeps the module list
rescan_keeping_modules(a, after, scan) ==
    update_search([a EXCEPT !.source.repo = after,
                            !.structures = scan.structures])

\* rescan that replaces modules and entries and leaves the filter as it was
rescan_keeping_filter(a, after, scan) ==
    [a EXCEPT !.source.repo = after,
              !.modules = scan.modules,
              !.structures = scan.structures]

\* the tail of toggle_stage: the rescan, then update_search
rescan(a, after, scan) ==
    update_search([a EXCEPT !.source.repo = after,
                            !.modules = scan.modules,
                            !.structures = scan.structures])

\* toggle_stage once the selected row is known to be a file row
stage_file(a, repo, path, op, order) ==
    IF op = "staged" /\ repo.files[file_index(repo, path)].workdir = 0
    THEN [app |-> a, outcome |-> "panic"]
    ELSE [app |-> rescan(a, stage_apply(repo, path, op),
                         scan_local_repo(stage_apply(repo, path, op), order)),
          outcome |-> op]

\* stage_item that acts on the file of a symbol row as well
stage_item_any_row(a, item, order) ==
    stage_file(a, a.source.repo, item.path, stage_op(a.source.repo, item), order)

\* toggle_stage once the selected row is known
stage_item(a, item, order) ==
    IF ~item.is_file THEN [app |-> a, outcome |-> "noop"]
    ELSE stage_file(a, a.source.repo, item.path,
                    stage_op(a.source.repo, item), order)

\* App::toggle_stage.  outcome: "noop" (a guard returned early), "staged",
\* "reset", "removed" (the operation done, followed by the rescan), or "panic"
\* (an index out of bounds or a failed expect aborted the process).
toggle_stage(a, order) ==
    IF a.source.kind = "Local" /\ a.filtered_structure_indices # <<>>
    THEN IF a.selected_index >= Len(a.filtered_structure_indices)
         THEN [app |-> a, outcome |-> "panic"]
         ELSE IF At(a.filtered_structure_indices, a.selected_index)
                    >= Len(a.structures)
         THEN [app |-> a, outcome |-> "panic"]
         ELSE stage_item(a, At(a.structures,
                               At(a.filtered_structure_indices, a.selected_index)),
                         order)
    ELSE [app |-> a, outcome |-> "noop"]

\* the calls of toggle_stage whose result goes through expect
Faults == {"index", "peel", "reset", "remove", "add", "write"}

\* toggle_stage choosing the operation op makes the call named by fault
fault_reached(op, fault) ==
    \/ fault \in {"index", "write"}
    \/ op = "reset" /\ fault \in {"peel", "reset"}
    \/ op = "removed" /\ fault = "remove"
    \/ op = "staged" /\ fault = "add"

\* toggle_stage that drops a failed result and goes on to the rescan
toggle_stage_dropping_errors(a, order, fault) == toggle_stage(a, order)

\* App::toggle_stage when the call named by fault returns an error: the
\* expect on it aborts the process before any assignment to self
toggle_stage_under(a, order, fault) ==
    IF toggle_stage(a, order).outcome \in {"noop", "panic"}
    THEN toggle_stage(a, order)
    ELSE IF fault_reached(toggle_stage(a, order).outcome, fault)
    THEN [app |-> a, outcome |-> "panic"]
    ELSE toggle_stage(a, order)

(***************************************************************************)
(* Loading.                                                                *)
(***************************************************************************)
DiffGit == <<"d", "i", "f", "f", " ", "-", "-", "g", "i", "t">>

\* line.split_whitespace().last()
last_token(line) ==
    LET ends == {i \in 1..Len(line) : line[i] # " "}
    IN  IF ends = {} THEN [some |-> FALSE, val |-> <<>>]
        ELSE LET e == CHOOSE i \in ends : \A j \in ends : j <= i
                 gaps == {i \in 1..e : line[i] = " "}
                 b == IF gaps = {} THEN 0
                      ELSE CHOOSE i \in gaps : \A j \in gaps : j <= i
             IN  [some |-> TRUE, val |-> SubSeq(line, b + 1, e)]

\* str::trim_start_matches("b/"): every leading repetition is removed
RECURSIVE trim_start_matches(_, _)
trim_start_matches(s, pat) ==
    IF pat # <<>> /\ starts_with(s, pat)
    THEN trim_start_matches(SubSeq(s, Len(pat) + 1, Len(s)), pat)
    ELSE s

map_insert(map, k, v) ==
    [x \in DOMAIN map \cup {k} |-> IF x = k THEN v ELSE map[x]]

EmptyMap == [x \in {} |-> <<>>]

\* the loop of split_diff over raw.lines(), from the state st
RECURSIVE split_loop(_, _)
split_loop(lines, st) ==
    IF lines = <<>> THEN st
    ELSE LET line == Head(lines)
             is_header == starts_with(line, DiffGit)
             flushed == IF is_header /\ st.current_file # <<>>
                        THEN [st EXCEPT
                                !.map = map_insert(st.map, st.current_file,
                                                   st.current_lines),
                                !.current_lines = <<>>]
                        ELSE st
             b_path == last_token(line)
             named == IF is_header /\ b_path.some
                      THEN [flushed EXCEPT !.current_file =
                                trim_start_matches(b_path.val, <<"b", "/">>)]
                      ELSE flushed
         IN  split_loop(Tail(lines),
                        [named EXCEPT !.current_lines = Append(@, line)])

\* App::split_diff
split_diff(raw) ==
    LET st == split_loop(raw, [map |-> EmptyMap, current_file |-> <<>>,
                               current_lines |-> <<>>])
    IN  IF st.current_file # <<>>
        THEN map_insert(st.map, st.current_file, st.current_lines)
        ELSE st.map

DefaultDashboard ==
    [repo_name |-> <<>>, branch_name |-> <<>>, description |-> <<>>, stats |-> <<>>]

\* App::load_local on a repository that opens
load_local(a, repo, order) ==
    LET scan == scan_local_repo(repo, order)
        files == SelectSeq(scan.structures, LAMBDA i : i.is_file)
    IN  [a EXCEPT
            !.dashboard_info =
                [repo_name |-> <<"Unknown Repo">>,
                 branch_name |-> IF repo.has_head THEN <<"main">>
                                 ELSE <<"Empty Repo">>,
                 description |-> <<"Local Working Tree Changes">>,
                 stats |-> NumStr(Len(files)) \o <<" files changed">>],
            !.modules = scan.modules,
            !.structures = scan.structures,
            !.source = [kind |-> "Local", repo |-> repo, raw_diff |-> <<>>,
                        file_diffs |-> EmptyMap]]

\* App::load_github once check_auth, fetch_pr_info and fetch_pr_diff succeeded
load_github(a, info, raw_diff, order) ==
    LET paths == [i \in 1..Len(info.files) |-> info.files[i].path]
        row(file) == [text |-> file.path, path |-> file.path, is_file |-> TRUE,
                      status |-> <<"+">> \o NumStr(file.additions) \o <<" ", "-">>
                                 \o NumStr(file.deletions),
                      line_no |-> None, is_staged |-> FALSE]
    IN  [a EXCEPT
            !.dashboard_info =
                [repo_name |-> info.name_with_owner,
                 branch_name |-> <<"#">> \o NumStr(info.number),
                 description |-> info.title,
                 stats |-> <<"+">> \o NumStr(info.additions) \o <<" ", "-">>
                           \o NumStr(info.deletions) \o <<" ", "(">>
                           \o NumStr(info.changed_files) \o <<" files)">>],
            !.modules = aggregate_modules(dir_counts(paths), order),
            !.structures = [i \in 1..Len(info.files) |-> row(info.files[i])],
            !.source = [kind |-> "GitHub", repo |-> NoRepo, raw_diff |-> raw_diff,
                        file_diffs |-> split_diff(raw_diff)]]

InitialContext == 3

NoMessage == [some |-> FALSE, val |-> ""]

Message(m) == [some |-> TRUE, val |-> m]

\* the target is a pull request when its text looks like one (App::new)
is_remote(path_str) ==
    \/ starts_with(path_str, <<"h", "t", "t", "p">>)
    \/ contains(path_str, <<"g", "i", "t", "h", "u", "b", ".", "c", "o", "m">>)
    \/ contains(path_str, <<"/", "p", "u", "l", "l", "/">>)

\* new whose failed pull-request load keeps the entries of metadata fetched
\* before the failure
new_partial_load(env, order) ==
    LET fresh == [zoom_level |-> "Galaxy", modules |-> <<>>, structures |-> <<>>,
                logic_view_content |-> <<>>, filtered_structure_indices |-> <<>>,
                selected_index |-> 0, source |-> NoSource, error_msg |-> NoMessage,
                dashboard_info |-> DefaultDashboard,
                context_lines |-> U32(InitialContext),
                input_mode |-> "Normal", search_query |-> <<>>]
        loaded == IF is_remote(env.path)
                  THEN IF env.ok
                       THEN load_github(fresh, env.info, env.raw_diff, order)
                       ELSE [load_github(fresh,
                                [number |-> 7, title |-> <<"t">>,
                                 name_with_owner |-> <<"o", "/", "r">>,
                                 changed_files |-> 1, additions |-> 1,
                                 deletions |-> 0,
                                 files |-> <<[path |-> <<"q">>, additions |-> 1,
                                              deletions |-> 0]>>],
                                <<>>, order)
                                EXCEPT !.error_msg = Message("GitHub Error")]
                  ELSE IF env.ok
                       THEN load_local(fresh, env.repo, order)
                       ELSE [fresh EXCEPT !.error_msg = Message("Local Error")]
    IN  IF loaded.structures # <<>> THEN load_diff(update_search(loaded))
        ELSE loaded

\* App::new in the environment env: the target path and what the collaborators
\* answer for it (env.ok: the repository opens, or gh answers every call)
new(env, order) ==
    LET fresh == [zoom_level |-> "Galaxy", modules |-> <<>>, structures |-> <<>>,
                logic_view_content |-> <<>>, filtered_structure_indices |-> <<>>,
                selected_index |-> 0, source |-> NoSource, error_msg |-> NoMessage,
                dashboard_info |-> DefaultDashboard,
                context_lines |-> U32(InitialContext),
                input_mode |-> "Normal", search_query |-> <<>>]
        loaded == IF is_remote(env.path)
                  THEN IF env.ok
                       THEN load_github(fresh, env.info, env.raw_diff, order)
                       ELSE [fresh EXCEPT !.error_msg = Message("GitHub Error")]
                  ELSE IF env.ok
                       THEN load_local(fresh, env.repo, order)
                       ELSE [fresh EXCEPT !.error_msg = Message("Local Error")]
    IN  IF loaded.structures # <<>> THEN load_diff(update_search(loaded))
        ELSE loaded

(***************************************************************************)
(* The environments the session starts in: a target path and what the      *)
(* repository or the gh tool answers for it.                               *)
(***************************************************************************)
NoInfo == [number |-> 0, title |-> <<>>, name_with_owner |-> <<>>,
           changed_files |-> 0, additions |-> 0, deletions |-> 0, files |-> <<>>]

LocalPath == <<".">>

RemotePath == <<"o", "/", "r", "/", "p", "u", "l", "l", "/", "7">>

FnQ == [kind |-> <<"f", "n">>, name |-> <<"q">>, start_line |-> 4]

StructK == [kind |-> <<"s", "t", "r", "u", "c", "t">>, name |-> <<"k">>,
            start_line |-> 2]

\* a modified source file with one function, and an untracked file
RepoEdited ==
    [has_head |-> TRUE,
     files |-> << [path |-> <<"b", "/", "j", ".", "r", "s">>, head |-> 1,
                   index |-> 1, workdir |-> 2, symbols |-> <<FnQ>>,
                   ctx_avail |-> 4],
                  [path |-> <<"k">>, head |-> 0, index |-> 0, workdir |-> 1,
                   symbols |-> <<>>, ctx_avail |-> 0] >>]

\* a file deleted from the working directory, and a staged change whose
\* working-directory text is back at HEAD
RepoReverted ==
    [has_head |-> TRUE,
     files |-> << [path |-> <<"j">>, head |-> 1, index |-> 1, workdir |-> 0,
                   symbols |-> <<>>, ctx_avail |-> 2],
                  [path |-> <<"k", "/", "q">>, head |-> 1, index |-> 2,
                   workdir |-> 1, symbols |-> <<>>, ctx_avail |-> 2] >>]

\* a repository without a commit: a staged new source file and an untracked one
RepoUnborn ==
    [has_head |-> FALSE,
     files |-> << [path |-> <<"B", ".", "R", "S">>, head |-> 0, index |-> 1,
                   workdir |-> 1, symbols |-> <<StructK>>, ctx_avail |-> 0],
                  [path |-> <<"b", "/", "q">>, head |-> 0, index |-> 0,
                   workdir |-> 1, symbols |-> <<>>, ctx_avail |-> 0] >>]

Header(p) == DiffGit \o <<" ", "a", "/">> \o p \o <<" ", "b", "/">> \o p

\* a pull request with three changed files in two directories
PrInfo ==
    [number |-> 7, title |-> <<"t">>, name_with_owner |-> <<"o", "/", "r">>,
     changed_files |-> 3, additions |-> 3, deletions |-> 1,
     files |-> << [path |-> <<"b", "/", "q">>, additions |-> 1, deletions |-> 0],
                  [path |-> <<"j">>, additions |-> 0, deletions |-> 1],
                  [path |-> <<"k">>, additions |-> 2, deletions |-> 0] >>]

PrDiff ==
    << Header(<<"b", "/", "q">>), <<"+", "h", "i">>,
       Header(<<"j">>), <<"-", "b", "y", "e">>,
       Header(<<"k">>), <<"+", "k">>, <<"+", "q">> >>

Environments ==
    {[path |-> LocalPath, ok |-> TRUE, repo |-> r, info |-> NoInfo,
      raw_diff |-> <<>>] : r \in {RepoEdited, RepoReverted, RepoUnborn}}
    \cup {[path |-> LocalPath, ok |-> FALSE, repo |-> NoRepo, info |-> NoInfo,
           raw_diff |-> <<>>],
          [path |-> RemotePath, ok |-> FALSE, repo |-> NoRepo, info |-> NoInfo,
           raw_diff |-> <<>>],
          [path |-> RemotePath, ok |-> TRUE, repo |-> NoRepo, info |-> PrInfo,
           raw_diff |-> PrDiff]}

\* the hasher orders possible when env is loaded
env_orders(env) ==
    IF is_remote(env.path)
    THEN IterOrders(DOMAIN dir_counts(
            [i \in 1..Len(env.info.files) |-> env.info.files[i].path]))
    ELSE scan_orders(env.repo)

(***************************************************************************)
(* Events and handle_event.                                                *)
(***************************************************************************)
Chars == {"q", "j", "k", " ", "+", "=", "-", "_", "/", "b", "B"}

SpecialKeys == {"Enter", "Esc", "Backspace", "Down", "Up", "Left", "Tab"}

Press(code, ch) == [press |-> TRUE, code |-> code, ch |-> ch]

\* key presses, and one event that is not a key press
Events ==
    {Press(k, "") : k \in SpecialKeys}
    \cup {Press("Char", c) : c \in Chars}
    \cup {[press |-> FALSE, code |-> "Enter", ch |-> ""]}

IsChar(ev, cs) == ev.code = "Char" /\ ev.ch \in cs

\* what the loop of main does with the value handle_event returns
Result(a, keep_running, op) ==
    [app |-> a, continue |-> keep_running, op |-> op,
     run |-> IF op = "panic" THEN "panicked"
             ELSE IF keep_running THEN "running" ELSE "quit"]

\* the result of the arm that calls toggle_stage
Staged(t) ==
    Result(t.app, TRUE,
           IF t.outcome = "panic" THEN "panic"
           ELSE IF t.outcome = "noop" THEN "toggle_stage_noop"
           ELSE "toggle_stage")

\* handle_event that matches 'q' and Esc before it looks at input_mode
handle_event_quit_in_any_mode(a, ev, order) ==
    IF ~ev.press THEN Result(a, TRUE, "none")
    ELSE IF IsChar(ev, {"q"}) \/ ev.code = "Esc" THEN Result(a, FALSE, "quit")
    ELSE IF a.input_mode = "Editing"
    THEN CASE ev.code = "Enter" -> Result(exit_search(a), TRUE, "exit_search")
           [] ev.code = "Backspace" ->
                Result(update_search([a EXCEPT !.search_query =
                            SubSeq(@, 1, Len(@) - 1)]), TRUE, "pop")
           [] ev.code = "Char" ->
                Result(update_search([a EXCEPT !.search_query = Append(@, ev.ch)]),
                       TRUE, "push")
           [] OTHER -> Result(a, TRUE, "none")
    ELSE CASE IsChar(ev, {"j"}) \/ ev.code = "Down" -> Result(next(a), TRUE, "next")
           [] IsChar(ev, {"k"}) \/ ev.code = "Up" ->
                Result(previous(a), TRUE, "previous")
           [] ev.code = "Enter" -> Result(zoom_in(a), TRUE, "zoom_in")
           [] ev.code \in {"Backspace", "Left"} ->
                Result(zoom_out(a), TRUE, "zoom_out")
           [] IsChar(ev, {" "}) -> Staged(toggle_stage(a, order))
           [] IsChar(ev, {"+", "="}) ->
                Result(increase_context(a), TRUE, "increase_context")
           [] IsChar(ev, {"-", "_"}) ->
                Result(decrease_context(a), TRUE, "decrease_context")
           [] IsChar(ev, {"/"}) ->
                IF a.zoom_level = "Structure"
                THEN Result(enter_search(a), TRUE, "enter_search")
                ELSE Result(a, TRUE, "none")
           [] OTHER -> Result(a, TRUE, "none")

\* handle_event whose '/' arm enters the search at every zoom level
handle_event_search_anywhere(a, ev, order) ==
    IF ~ev.press THEN Result(a, TRUE, "none")
    ELSE IF a.input_mode = "Editing"
    THEN CASE ev.code = "Enter" -> Result(exit_search(a), TRUE, "exit_search")
           [] ev.code = "Esc" -> Result(cancel_search(a), TRUE, "cancel_search")
           [] ev.code = "Backspace" ->
                Result(update_search([a EXCEPT !.search_query =
                            SubSeq(@, 1, Len(@) - 1)]), TRUE, "pop")
           [] ev.code = "Char" ->
                Result(update_search([a EXCEPT !.search_query = Append(@, ev.ch)]),
                       TRUE, "push")
           [] OTHER -> Result(a, TRUE, "none")
    ELSE CASE IsChar(ev, {"q"}) \/ ev.code = "Esc" -> Result(a, FALSE, "quit")
           [] IsChar(ev, {"j"}) \/ ev.code = "Down" -> Result(next(a), TRUE, "next")
           [] IsChar(ev, {"k"}) \/ ev.code = "Up" ->
                Result(previous(a), TRUE, "previous")
           [] ev.code = "Enter" -> Result(zoom_in(a), TRUE, "zoom_in")
           [] ev.code \in {"Backspace", "Left"} ->
                Result(zoom_out(a), TRUE, "zoom_out")
           [] IsChar(ev, {" "}) -> Staged(toggle_stage(a, order))
           [] IsChar(ev, {"+", "="}) ->
                Result(increase_context(a), TRUE, "increase_context")
           [] IsChar(ev, {"-", "_"}) ->
                Result(decrease_context(a), TRUE, "decrease_context")
           [] IsChar(ev, {"/"}) -> Result(enter_search(a), TRUE, "enter_search")
           [] OTHER -> Result(a, TRUE, "none")

\* handle_event: the App it leaves, the value it returns (continue), and the
\* method it called (op; "panic" when the call aborted the process)
handle_event(a, ev, order) ==
    IF ~ev.press THEN Result(a, TRUE, "none")
    ELSE IF a.input_mode = "Editing"
    THEN CASE ev.code = "Enter" -> Result(exit_search(a), TRUE, "exit_search")
           [] ev.code = "Esc" -> Result(cancel_search(a), TRUE, "cancel_search")
           [] ev.code = "Backspace" ->
                Result(update_search([a EXCEPT !.search_query =
                            SubSeq(@, 1, Len(@) - 1)]), TRUE, "pop")
           [] ev.code = "Char" ->
                Result(update_search([a EXCEPT !.search_query = Append(@, ev.ch)]),
                       TRUE, "push")
           [] OTHER -> Result(a, TRUE, "none")
    ELSE CASE IsChar(ev, {"q"}) \/ ev.code = "Esc" -> Result(a, FALSE, "quit")
           [] IsChar(ev, {"j"}) \/ ev.code = "Down" -> Result(next(a), TRUE, "next")
           [] IsChar(ev, {"k"}) \/ ev.code = "Up" ->
                Result(previous(a), TRUE, "previous")
           [] ev.code = "Enter" -> Result(zoom_in(a), TRUE, "zoom_in")
           [] ev.code \in {"Backspace", "Left"} ->
                Result(zoom_out(a), TRUE, "zoom_out")
           [] IsChar(ev, {" "}) -> Staged(toggle_stage(a, order))
           [] IsChar(ev, {"+", "="}) ->
                Result(increase_context(a), TRUE, "increase_context")
           [] IsChar(ev, {"-", "_"}) ->
                Result(decrease_context(a), TRUE, "decrease_context")
           [] IsChar(ev, {"/"}) ->
                IF a.zoom_level = "Structure"
                THEN Result(enter_search(a), TRUE, "enter_search")
                ELSE Result(a, TRUE, "none")
           [] OTHER -> Result(a, TRUE, "none")

(***************************************************************************)
(* The session: App::new, then the event loop of main.                     *)
(***************************************************************************)
Init ==
    /\ \E env \in Environments : \E order \in env_orders(env) :
            app = new(env, order)
    /\ run = "running"
    /\ last_op = "new"

\* the loop of main takes the result r of handle_event
Taken(r) ==
    /\ run = "running"
    /\ app' = r.app
    /\ run' = r.run
    /\ last_op' = r.op

\* one pass of the loop of main: an event is read and handled
Handle(ev, order) == Taken(handle_event(app, ev, order))

NoOrder == <<>>

Editing == input_mode = "Editing"

Normal == input_mode = "Normal"

KeyCommit == Editing /\ Handle(Press("Enter", ""), NoOrder)

KeyCancel == Editing /\ Handle(Press("Esc", ""), NoOrder)

KeyErase == Editing /\ Handle(Press("Backspace", ""), NoOrder)

KeyType ==
    /\ Editing
    /\ Len(search_query) < MaxQueryLen
    /\ \E c \in Chars : Handle(Press("Char", c), NoOrder)

KeyQuit ==
    /\ Normal
    /\ \E ev \in {Press("Char", "q"), Press("Esc", "")} : Handle(ev, NoOrder)

KeyNext ==
    /\ Normal
    /\ \E ev \in {Press("Char", "j"), Press("Down", "")} : Handle(ev, NoOrder)

KeyPrevious ==
    /\ Normal
    /\ \E ev \in {Press("Char", "k"), Press("Up", "")} : Handle(ev, NoOrder)

KeyZoomIn == Normal /\ Handle(Press("Enter", ""), NoOrder)

KeyZoomOut ==
    /\ Normal
    /\ \E ev \in {Press("Backspace", ""), Press("Left", "")} : Handle(ev, NoOrder)

KeyStage ==
    /\ Normal
    /\ \E order \in scan_orders(source.repo) : Handle(Press("Char", " "), order)

\* the model follows context_lines within MaxContext of 0, of a carry into the
\* upper limb and of the largest u32
CanGrow(c) ==
    \/ (c.lo + ContextStep) % Limb <= MaxContext
    \/ c.hi = Limb - 1 /\ c.lo + MaxContext >= Limb - 1

CanShrink(c) ==
    \/ c.lo <= MaxContext
    \/ c.hi = Limb - 1 /\ c.lo + MaxContext >= Limb - 1

KeyMoreContext ==
    /\ Normal
    /\ CanGrow(context_lines)
    /\ \E ev \in {Press("Char", "+"), Press("Char", "=")} : Handle(ev, NoOrder)

KeyLessContext ==
    /\ Normal
    /\ CanShrink(context_lines)
    /\ \E ev \in {Press("Char", "-"), Press("Char", "_")} : Handle(ev, NoOrder)

KeySearch == Normal /\ Handle(Press("Char", "/"), NoOrder)

\* the events no arm of handle_event acts on
KeyIgnored ==
    \E ev \in Events :
        /\ \/ ~ev.press
           \/ Editing /\ ev.code \in {"Down", "Up", "Left", "Tab"}
           \/ Normal /\ (ev.code = "Tab" \/ IsChar(ev, {"b", "B"}))
        /\ Handle(ev, NoOrder)

Next ==
    \/ KeyCommit
    \/ KeyCancel
    \/ KeyErase
    \/ KeyType
    \/ KeyQuit
    \/ KeyNext
    \/ KeyPrevious
    \/ KeyZoomIn
    \/ KeyZoomOut
    \/ KeyStage
    \/ KeyMoreContext
    \/ KeyLessContext
    \/ KeySearch
    \/ KeyIgnored

Spec == Init /\ [][Next]_vars

(***************************************************************************)
(* update_search on its own: applied once to an App whose entry list,      *)
(* query and selection are drawn from bounded sets.                        *)
(***************************************************************************)
SearchTexts ==
    { <<"f", "o", "o", ".", "r", "s">>,
      <<" ", " ", "f", "n", " ", "b", "a", "r">>,
      <<"B", "a", "R">>,
      <<"r", "b">> }

SearchChars == {"b", "a", "r", "A"}

SeqsUpTo(set, n) == UNION {[1..k -> set] : k \in 0..n}

\* a pull request whose changed files carry the given texts as their paths
SearchEnv(texts) ==
    [path |-> RemotePath, ok |-> TRUE, repo |-> NoRepo,
     info |-> [NoInfo EXCEPT !.files =
                [i \in 1..Len(texts) |->
                    [path |-> texts[i], additions |-> 1, deletions |-> 0]]],
     raw_diff |-> <<>>]

\* the App at the call of update_search: loaded, at Structure level, the query
\* just edited and the filter not yet recomputed
SearchInput(texts, q, sel) ==
    [new(SearchEnv(texts), CHOOSE o \in env_orders(SearchEnv(texts)) : TRUE)
        EXCEPT !.zoom_level = "Structure",
               !.input_mode = "Editing",
               !.search_query = q,
               !.selected_index = sel]

SearchInputs ==
    {SearchInput(texts, q, sel) :
        texts \in SeqsUpTo(SearchTexts, MaxEntries),
        q \in SeqsUpTo(SearchChars, MaxSearchLen),
        sel \in 0..MaxEntries}

InitSearch ==
    /\ app \in SearchInputs
    /\ run = "running"
    /\ last_op = "input"

ApplySearch ==
    /\ last_op = "input"
    /\ app' = update_search(app)
    /\ last_op' = "update_search"
    /\ UNCHANGED run

NextSearch == ApplySearch

SpecSearch == InitSearch /\ [][NextSearch]_vars

(***************************************************************************)
(* The session continued from a state many increase_context calls away:    *)
(* the Logic level of a local repository after '+' has been pressed until  *)
(* context_lines is about to carry into the upper limb (65535 = 3 + 3 *     *)
(* 21844) or to saturate (4294967293 = 1 + 3 * 1431655764, counted from the *)
(* floor 1), next to the sessions of that repository and of a pull request *)
(* from their start.  The keys are those of Normal mode without the search *)
(* key, so no query is typed.                                              *)
(***************************************************************************)
HighContexts ==
    {[hi |-> 0, lo |-> Limb - 1], [hi |-> Limb - 1, lo |-> Limb - 3]}

ContextEnvs == {env \in Environments : env.ok /\ env.repo \in {RepoEdited}}

RemoteEnvs == {env \in Environments : env.ok /\ is_remote(env.path)}

\* the App after Enter, Enter and the presses of '+' that lead to context c
after_presses(fresh, c) ==
    load_diff([zoom_in(zoom_in(fresh)) EXCEPT !.context_lines = c])

InitContext ==
    /\ \/ \E env \in ContextEnvs : \E order \in env_orders(env) :
            \E c \in HighContexts : app = after_presses(new(env, order), c)
       \/ \E env \in ContextEnvs \cup RemoteEnvs : \E order \in env_orders(env) :
            app = new(env, order)
    /\ run = "running"
    /\ last_op = "new"

NextContext ==
    \/ KeyQuit
    \/ KeyNext
    \/ KeyPrevious
    \/ KeyZoomIn
    \/ KeyZoomOut
    \/ KeyStage
    \/ KeyMoreContext
    \/ KeyLessContext
    \/ KeyIgnored

SpecContext == InitContext /\ [][NextContext]_vars

(***************************************************************************)
(* Loads and rescans over many changed files: a repository without a       *)
(* commit, or a pull request, with up to MaxBucket files in one directory  *)
(* and up to MaxRootFiles at the top; the stage key rescans the            *)
(* repository.                                                             *)
(***************************************************************************)
\* most changed files in the directory, and at the top level
MaxBucket == 26

MaxRootFiles == 2

TwoDigits(i) == <<Digits[(i \div 10) + 1], Digits[(i % 10) + 1]>>

\* the changed paths d/01 .. d/n and f01 .. fm, in path order
bucket_paths(n, m) ==
    [i \in 1..n |-> <<"d", "/">> \o TwoDigits(i)]
    \o [i \in 1..m |-> <<"f">> \o TwoDigits(i)]

\* a repository without a commit in which these paths are untracked files
UntrackedRepo(paths) ==
    [has_head |-> FALSE,
     files |-> [i \in 1..Len(paths) |->
                    [path |-> paths[i], head |-> 0, index |-> 0, workdir |-> 1,
                     symbols |-> <<>>, ctx_avail |-> 0]]]

ModuleEnvs ==
    {[path |-> LocalPath, ok |-> TRUE, repo |-> UntrackedRepo(bucket_paths(n, m)),
      info |-> NoInfo, raw_diff |-> <<>>] :
        n \in 0..MaxBucket, m \in 0..MaxRootFiles}
    \cup {SearchEnv(bucket_paths(n, m)) :
            n \in 0..MaxBucket, m \in 0..MaxRootFiles}

InitModules ==
    /\ \E env \in ModuleEnvs : \E order \in env_orders(env) :
            app = new(env, order)
    /\ run = "running"
    /\ last_op = "new"

NextModules == KeyStage

SpecModules == InitModules /\ [][NextModules]_vars

(***************************************************************************)
(* Loads of a pull request over many diff texts: every text of up to       *)
(* MaxDiffLines lines, each a header of one of the changed paths or a line *)
(* of content; the keys are those that move over the entries.              *)
(***************************************************************************)
MaxDiffLines == 4

SplitPaths == << <<"b", "/", "q">>, <<"x">> >>

DiffLines ==
    {Header(SplitPaths[i]) : i \in 1..Len(SplitPaths)}
    \cup { <<"+", "h", "i">>, <<"-", "b", "y", "e">>, <<"n", "o", "t", "e">> }

\* a pull request that changes SplitPaths and whose diff text is raw
SplitEnv(raw) ==
    [path |-> RemotePath, ok |-> TRUE, repo |-> NoRepo,
     info |-> [NoInfo EXCEPT !.files =
                [i \in 1..Len(SplitPaths) |->
                    [path |-> SplitPaths[i], additions |-> 1, deletions |-> 0]]],
     raw_diff |-> raw]

InitSplit ==
    /\ \E raw \in SeqsUpTo(DiffLines, MaxDiffLines) :
            \E order \in env_orders(SplitEnv(raw)) :
                app = new(SplitEnv(raw), order)
    /\ run = "running"
    /\ last_op = "new"

NextSplit ==
    \/ KeyNext
    \/ KeyPrevious
    \/ KeyZoomIn

SpecSplit == InitSplit /\ [][NextSplit]_vars

(***************************************************************************)
(* Staging while a repository call fails: Local sessions in which the      *)
(* stage key may meet an index that cannot be obtained or written, or a     *)
(* failing reset, remove or add.                                            *)
(***************************************************************************)
InitFault ==
    /\ \E env \in {e \in Environments : e.ok /\ ~is_remote(e.path)} :
            \E order \in env_orders(env) : app = new(env, order)
    /\ run = "running"
    /\ last_op = "new"

KeyStageFault ==
    /\ Normal
    /\ \E fault \in Faults : \E order \in scan_orders(source.repo) :
            Taken(Staged(toggle_stage_under(app, order, fault)))

NextFault ==
    \/ KeyNext
    \/ KeyPrevious
    \/ KeyZoomIn
    \/ KeyZoomOut
    \/ KeyStage
    \/ KeyStageFault

SpecFault == InitFault /\ [][NextFault]_vars

(***************************************************************************)
(* Properties.                                                             *)
(***************************************************************************)
\* the row the selection points at through the filter
SelectedItem == At(structures, At(filtered_structure_indices, selected_index))

\* the list selected_index indexes at the current zoom level
AuthoritativeLen ==
    CASE zoom_level = "Galaxy" -> Len(modules)
      [] zoom_level = "Structure" -> Len(filtered_structure_indices)
      [] zoom_level = "Logic" -> Len(logic_view_content)

\* C1: in every reachable state selected_index is a valid index into the list
\* that is authoritative for the zoom level (modules, the filtered indices, the
\* visible diff lines), or 0 when that list is empty.
C1_SelectionValid ==
    IF AuthoritativeLen = 0 THEN selected_index = 0
    ELSE selected_index < AuthoritativeLen

\* the methods the claims call action entry points
EntryOps ==
    {"next", "previous", "zoom_in", "zoom_out", "toggle_stage",
     "toggle_stage_noop", "increase_context", "decrease_context",
     "enter_search", "exit_search", "cancel_search", "push", "pop"}

\* the lines the source holds for the selected row, with the trailer of a
\* symbol row
SelectedDiff ==
    (IF source.kind = "Local"
     THEN local_diff_lines(source.repo, SelectedItem.path, context_lines)
     ELSE IF SelectedItem.path \in DOMAIN source.file_diffs
          THEN source.file_diffs[SelectedItem.path]
          ELSE <<NoDiffLine>>)
    \o (IF SelectedItem.is_file THEN <<>>
        ELSE <<TrailerLine(SelectedItem.line_no.val)>>)

\* C2: when an action entry point has returned at Structure level with a loaded
\* source and a non-empty filter, the diff buffer is the diff of the selected
\* entry.
C2_DiffFollowsSelection ==
    (/\ last_op \in EntryOps
     /\ zoom_level = "Structure"
     /\ source.kind # "None"
     /\ filtered_structure_indices # <<>>
     /\ selected_index < Len(filtered_structure_indices))
    => logic_view_content = SelectedDiff

\* text contains the query when both are lower-cased, character by character
Matches(text, q) ==
    \E k \in 0..(Len(text) - Len(q)) :
        \A j \in 1..Len(q) : LowerChar(text[k + j]) = LowerChar(q[j])

StrictlyAscending(seq) ==
    \A i \in 1..(Len(seq) - 1) : seq[i] < seq[i + 1]

Elements(seq) == {seq[i] : i \in 1..Len(seq)}

\* C3: update_search leaves the identity sequence for an empty query, and
\* otherwise exactly the ascending indices of the entries whose lower-cased
\* text contains the lower-cased query; so the result is a subsequence of the
\* empty-query result, which has one index per entry.
C3_FilterExact ==
    last_op = "update_search" =>
        /\ StrictlyAscending(filtered_structure_indices)
        /\ Elements(filtered_structure_indices) \subseteq 0..(Len(structures) - 1)
        /\ search_query = <<>> =>
                /\ Len(filtered_structure_indices) = Len(structures)
                /\ \A i \in 1..Len(structures) :
                        filtered_structure_indices[i] = i - 1
        /\ search_query # <<>> =>
                Elements(filtered_structure_indices) =
                    {i \in 0..(Len(structures) - 1) :
                        Matches(At(structures, i).text, search_query)}

\* C3 witness: a query of three characters kept the second of two entries
C3_Witness ==
    /\ last_op = "update_search"
    /\ Len(search_query) = 3
    /\ Len(structures) = 2
    /\ filtered_structure_indices = <<1>>

\* the methods after which the filter has been recomputed by update_search
SearchOps == {"push", "pop", "enter_search", "cancel_search", "toggle_stage"}

\* C4: a step that recomputes the filter leaves selected_index at 0 when the
\* new filtered list is empty or the previous selection is beyond its end, and
\* at its previous value otherwise.
C4_SelectionNormalized ==
    [][last_op' \in SearchOps =>
            IF \/ filtered_structure_indices' = <<>>
               \/ selected_index >= Len(filtered_structure_indices')
            THEN selected_index' = 0
            ELSE selected_index' = selected_index]_vars

\* C4 witness: a query edit kept a selection that is not the first row
C4_Witness ==
    /\ last_op = "push"
    /\ selected_index > 0
    /\ Len(filtered_structure_indices) < Len(structures)

\* C5, as claimed: after any action, at any zoom level, selected_index is 0
\* when the filtered list is empty and below its length otherwise.
C5_Original ==
    last_op \in EntryOps =>
        IF filtered_structure_indices = <<>> THEN selected_index = 0
        ELSE selected_index < Len(filtered_structure_indices)

\* C5, amended: whenever the session is at Structure level, selected_index is
\* 0 when the filtered list is empty and below its length otherwise.
C5_SelectionInFilter ==
    zoom_level = "Structure" =>
        IF filtered_structure_indices = <<>> THEN selected_index = 0
        ELSE selected_index < Len(filtered_structure_indices)

\* C5 witness: a query edit at Structure level emptied the filtered list
C5_Witness ==
    /\ zoom_level = "Structure"
    /\ last_op = "push"
    /\ structures # <<>>
    /\ filtered_structure_indices = <<>>
    /\ selected_index = 0

\* the methods that neither edit the query nor recompute the filter
MovementOps ==
    {"next", "previous", "zoom_in", "zoom_out", "increase_context",
     "decrease_context", "toggle_stage_noop", "exit_search", "none", "quit",
     "panic"}

\* C6: search_query changes only by a key press received in Editing mode (a
\* character appended, the last character removed, Esc clearing it) or by
\* enter_search; a committed query stays across movement, zoom, context
\* adjustment and staging, and so does its filter: the filtered indices are
\* untouched by the former and recomputed with the same query by staging.
C6_QueryEditedOnlyWhileEditing ==
    [][/\ search_query' # search_query =>
            \/ /\ input_mode = "Editing"
               /\ last_op' = "push"
               /\ Len(search_query') = Len(search_query) + 1
               /\ SubSeq(search_query', 1, Len(search_query)) = search_query
               /\ search_query'[Len(search_query')] \in Chars
            \/ /\ input_mode = "Editing"
               /\ last_op' = "pop"
               /\ search_query' = SubSeq(search_query, 1, Len(search_query) - 1)
            \/ /\ input_mode = "Editing"
               /\ last_op' = "cancel_search"
               /\ search_query' = <<>>
            \/ /\ input_mode = "Normal"
               /\ last_op' = "enter_search"
               /\ search_query' = <<>>
       /\ last_op' \in MovementOps =>
            filtered_structure_indices' = filtered_structure_indices
       /\ last_op' = "toggle_stage" =>
            Elements(filtered_structure_indices') =
                {i \in 0..(Len(structures') - 1) :
                    Matches(At(structures', i).text, search_query)}]_vars

\* C6 as stated: a committed, non-empty query and its filtered indices are the
\* same before and after every Normal-mode method, staging included.
C6_Original ==
    [][(input_mode = "Normal" /\ search_query # <<>> /\ zoom_level = "Structure"
            /\ last_op' # "enter_search") =>
            /\ search_query' = search_query
            /\ filtered_structure_indices' = filtered_structure_indices]_vars

\* C6 witness: a committed query is still there after a stage toggle
C6_Witness ==
    /\ input_mode = "Normal"
    /\ search_query # <<>>
    /\ last_op = "toggle_stage"
    /\ filtered_structure_indices # <<>>

\* C7: enter_search leaves Editing mode, an empty query and the identity
\* filter; cancel_search leaves Normal mode, an empty query and the identity
\* filter.
C7_SearchEntryAndCancel ==
    /\ last_op = "enter_search" =>
            /\ input_mode = "Editing"
            /\ search_query = <<>>
            /\ filtered_structure_indices = Identity(Len(structures))
    /\ last_op = "cancel_search" =>
            /\ input_mode = "Normal"
            /\ search_query = <<>>
            /\ filtered_structure_indices = Identity(Len(structures))

\* C7 witness: a search over a loaded entry list was cancelled
C7_Witness ==
    /\ last_op = "cancel_search"
    /\ Len(structures) > 1
    /\ zoom_level = "Structure"

\* C8: committing a search changes input_mode from Editing to Normal and
\* nothing else of the App.
C8_CommitKeepsAll ==
    [][last_op' = "exit_search" =>
            /\ input_mode = "Editing"
            /\ app' = [app EXCEPT !.input_mode = "Normal"]]_vars

\* C8 witness: a query that filters some entries out was committed
C8_Witness ==
    /\ last_op = "exit_search"
    /\ input_mode = "Normal"
    /\ search_query # <<>>
    /\ filtered_structure_indices # <<>>
    /\ Len(filtered_structure_indices) < Len(structures)

\* C9: zoom_in at Structure level reaches Logic level exactly when the
\* filtered list is non-empty; with an empty list the level, the selection,
\* the filter and the diff buffer stay as they are.
C9_ZoomInGuard ==
    [][(zoom_level = "Structure" /\ last_op' = "zoom_in") =>
            IF filtered_structure_indices # <<>>
            THEN zoom_level' = "Logic"
            ELSE /\ zoom_level' = "Structure"
                 /\ selected_index' = selected_index
                 /\ filtered_structure_indices' = filtered_structure_indices
                 /\ logic_view_content' = logic_view_content]_vars

\* C9 witness: zoom_in was rejected at Structure level with an empty filter
C9_Witness ==
    /\ last_op = "zoom_in"
    /\ zoom_level = "Structure"
    /\ input_mode = "Normal"
    /\ search_query # <<>>
    /\ filtered_structure_indices = <<>>
    /\ structures # <<>>

Inward(level) ==
    CASE level = "Galaxy" -> "Structure"
      [] level = "Structure" -> "Logic"
      [] level = "Logic" -> "Logic"

Outward(level) ==
    CASE level = "Galaxy" -> "Galaxy"
      [] level = "Structure" -> "Galaxy"
      [] level = "Logic" -> "Structure"

\* C10: a step that changes zoom_level is a zoom_in or a zoom_out, moves one
\* level and leaves selected_index at 0; zoom_in at Logic level and zoom_out at
\* Galaxy level change nothing.
C10_ZoomSteps ==
    [][/\ zoom_level' # zoom_level =>
            /\ \/ last_op' = "zoom_in" /\ zoom_level' = Inward(zoom_level)
               \/ last_op' = "zoom_out" /\ zoom_level' = Outward(zoom_level)
            /\ selected_index' = 0
       /\ (last_op' = "zoom_in" /\ zoom_level = "Logic") => app' = app
       /\ (last_op' = "zoom_out" /\ zoom_level = "Galaxy") => app' = app]_vars

\* C10 witness: zoom_out left a scrolled diff for Structure level
C10_Witness ==
    /\ last_op = "zoom_out"
    /\ zoom_level = "Structure"
    /\ selected_index = 0
    /\ Len(logic_view_content) > 1

\* the bound of next at the current zoom level
MoveBound ==
    CASE zoom_level = "Galaxy" -> Len(modules)
      [] zoom_level = "Structure" -> Len(filtered_structure_indices)
      [] zoom_level = "Logic" ->
            IF Len(logic_view_content) > 1 THEN Len(logic_view_content) ELSE 1

\* C11: next adds exactly 1 to selected_index when selected_index + 1 is below
\* the bound of the zoom level (modules, filtered indices, max(1, diff lines))
\* and otherwise changes nothing; previous subtracts exactly 1 when
\* selected_index > 0 and otherwise changes nothing.
C11_MovementBounded ==
    [][/\ last_op' = "next" =>
            IF selected_index + 1 < MoveBound
            THEN selected_index' = selected_index + 1
            ELSE app' = app
       /\ last_op' = "previous" =>
            IF selected_index > 0
            THEN selected_index' = selected_index - 1
            ELSE app' = app]_vars

\* C11 witness: next was pressed on the last diff line of a diff of several
\* lines and stayed there
C11_Witness ==
    /\ last_op = "next"
    /\ zoom_level = "Logic"
    /\ Len(logic_view_content) > 1
    /\ selected_index = Len(logic_view_content) - 1

\* x - y for two u32 values whose upper limbs are at most one apart
u32_minus(x, y) == (x.hi - y.hi) * Limb + (x.lo - y.lo)

Close(x, y) == x.hi - y.hi \in {-1, 0, 1}

\* d = min(c + 3, 2^32 - 1)
IsIncreased(c, d) ==
    \/ Close(c, d) /\ u32_minus(d, c) = 3
    \/ d = U32Max /\ c.hi = Limb - 1 /\ u32_minus(U32Max, c) < 3

\* d = max(1, c - 3)
IsDecreased(c, d) ==
    \/ Close(c, d) /\ u32_minus(c, d) = 3 /\ d # U32(0)
    \/ d = U32(1) /\ c.hi = 0 /\ c.lo <= 3

ContextOps == {"increase_context", "decrease_context"}

\* C12: context_lines changes only by increase_context or decrease_context at
\* Logic level with a Local source; there increase gives min(c + 3, 2^32 - 1)
\* and decrease gives max(1, c - 3), and the diff is resolved again; anywhere
\* else both leave the App as it is.  context_lines is at least 1 in every
\* state, and 3 in every state of a pull-request session.
C12_ContextArithmetic ==
    /\ [](context_lines # U32(0))
    /\ [](source.kind = "GitHub" => context_lines = U32(InitialContext))
    /\ [][/\ context_lines' # context_lines =>
                /\ last_op' \in ContextOps
                /\ zoom_level = "Logic"
                /\ source.kind = "Local"
          /\ (last_op' \in ContextOps
                /\ ~(zoom_level = "Logic" /\ source.kind = "Local")) =>
                app' = app
          /\ (last_op' \in ContextOps /\ zoom_level = "Logic"
                /\ source.kind = "Local") =>
                /\ IF last_op' = "increase_context"
                   THEN IsIncreased(context_lines, context_lines')
                   ELSE IsDecreased(context_lines, context_lines')
                /\ app' = load_diff([app EXCEPT
                                        !.context_lines = context_lines'])]_vars

\* C12 witness: increase_context has saturated at the largest u32
C12_Witness ==
    /\ last_op = "increase_context"
    /\ zoom_level = "Logic"
    /\ source.kind = "Local"
    /\ context_lines = U32Max

\* what a press of the stage key can be recorded as
StageOps == {"toggle_stage", "toggle_stage_noop", "panic"}

\* a precondition of toggle_stage fails: no Local source, an empty filtered
\* list, or a selected filtered entry that is a symbol row
StageRefused ==
    \/ source.kind # "Local"
    \/ filtered_structure_indices = <<>>
    \/ /\ selected_index < Len(filtered_structure_indices)
       /\ ~SelectedItem.is_file

\* C13: when a precondition of toggle_stage fails, the stage key changes
\* nothing (repository, modules, entries, filter, selection, diff buffer, zoom
\* level and query all stay) and the session keeps running.
C13_StageNoOp ==
    [][(last_op' \in StageOps /\ StageRefused) =>
            /\ app' = app
            /\ last_op' = "toggle_stage_noop"
            /\ run' = "running"]_vars

\* C13 witness: the stage key was pressed on a symbol row of a local repository
C13_Witness ==
    /\ last_op = "toggle_stage_noop"
    /\ source.kind = "Local"
    /\ zoom_level = "Structure"
    /\ filtered_structure_indices # <<>>
    /\ selected_index < Len(filtered_structure_indices)
    /\ ~SelectedItem.is_file

\* the preconditions of toggle_stage hold: a Local source and a selected
\* filtered entry that is a file row
StageAccepted ==
    /\ source.kind = "Local"
    /\ filtered_structure_indices # <<>>
    /\ selected_index < Len(filtered_structure_indices)
    /\ SelectedItem.is_file

\* the index version of file f after the operation chosen for its row `item`:
\* the working-directory version (add), the HEAD version (reset), absent (remove)
IndexAfter(repo, f, item) ==
    IF ~item.is_staged THEN f.workdir
    ELSE IF repo.has_head THEN f.head
    ELSE 0

\* C14: when the preconditions of toggle_stage hold the key is not refused,
\* and once the operation is done the index holds, for the selected path, the
\* working-directory version if the row was not staged, the HEAD version if it
\* was staged and HEAD exists, and no entry if it was staged and there is no
\* commit; every other file is untouched, and the entry list is the scan of
\* the index so written.
C14_StageOperation ==
    [][/\ (last_op' \in StageOps /\ StageAccepted) =>
                last_op' # "toggle_stage_noop"
       /\ last_op' = "toggle_stage" =>
            /\ StageAccepted
            /\ source'.kind = "Local"
            /\ source'.repo.has_head = source.repo.has_head
            /\ Len(source'.repo.files) = Len(source.repo.files)
            /\ \A i \in 1..Len(source.repo.files) :
                    source'.repo.files[i] =
                        IF source.repo.files[i].path = SelectedItem.path
                        THEN [source.repo.files[i] EXCEPT !.index =
                                IndexAfter(source.repo, source.repo.files[i],
                                           SelectedItem)]
                        ELSE source.repo.files[i]
            /\ structures' = rows_of(repo_statuses(source'.repo))]_vars

\* C14 witness: in a repository without a commit the staged file was removed
\* from the index, which is now empty
C14_Witness ==
    /\ last_op = "toggle_stage"
    /\ source.kind = "Local"
    /\ ~source.repo.has_head
    /\ \A i \in 1..Len(source.repo.files) : source.repo.files[i].index = 0

\* the diff buffer is the diff resolved for the current selection: the lines
\* of the selected entry, or none when the filter selects no entry
DiffResolved ==
    IF filtered_structure_indices = <<>> THEN logic_view_content = <<>>
    ELSE /\ selected_index < Len(filtered_structure_indices)
         /\ logic_view_content = SelectedDiff

C16_FailedLoadStaysEmpty ==
    /\ (last_op = "new" /\ ~error_msg.some) => source.kind # "None"
    /\ error_msg.some =>
            /\ source.kind = "None"
            /\ modules = <<>>
            /\ structures = <<>>
            /\ filtered_structure_indices = <<>>
            /\ logic_view_content = <<>>
            /\ selected_index = 0
            /\ zoom_level # "Logic"
            /\ last_op = "new" => zoom_level = "Galaxy"
            /\ run # "panicked"

\* C16 witness: in a failed session a query was committed at Structure level
\* and zoom_in was then refused
C16_Witness ==
    /\ error_msg.some
    /\ last_op = "zoom_in"
    /\ zoom_level = "Structure"
    /\ input_mode = "Normal"
    /\ search_query # <<>>

\* the step ran load_diff at Structure level: a query edit, the entry into or
\* the cancelling of a search, zoom_in from Galaxy, or a move of the selection
SelectionResolved ==
    \/ last_op' \in {"push", "pop", "enter_search", "cancel_search"}
    \/ last_op' = "zoom_in" /\ zoom_level = "Galaxy"
    \/ /\ last_op' \in {"next", "previous"}
       /\ zoom_level = "Structure"
       /\ selected_index' # selected_index

\* C17: with a GitHub source, resolving the diff of the selected entry leaves
\* in the buffer exactly the lines the mapping stores under its path, or the
\* single line "No diff available for this file." when the path is not a key;
\* the call never aborts, and each newly selected entry gets its own diff.
C17_RemoteLookup ==
    [][(source.kind = "GitHub" /\ SelectionResolved) =>
            /\ run' = "running"
            /\ filtered_structure_indices' # <<>> =>
                /\ selected_index' < Len(filtered_structure_indices')
                /\ logic_view_content' =
                        IF SelectedItem'.path \in DOMAIN source.file_diffs
                        THEN source.file_diffs[SelectedItem'.path]
                        ELSE <<NoDiffLine>>]_vars

\* C17 witness: the selection moved back from an entry with a stored diff to
\* the entry whose path is not a key of the mapping
C17_Witness ==
    /\ source.kind = "GitHub"
    /\ last_op = "previous"
    /\ zoom_level = "Structure"
    /\ filtered_structure_indices # <<>>
    /\ selected_index < Len(filtered_structure_indices)
    /\ SelectedItem.path \notin DOMAIN source.file_diffs
    /\ logic_view_content = <<NoDiffLine>>

\* the paths of the file rows of the entry list
ChangedPaths ==
    {structures[i].path : i \in {j \in 1..Len(structures) : structures[j].is_file}}

\* the directory bucket of a changed path: its parent, "root" for none
BucketOf(p) == IF LastPos(p, "/") <= 1 THEN RootName
               ELSE SubSeq(p, 1, LastPos(p, "/") - 1)

BucketSize(b) == Cardinality({p \in ChangedPaths : BucketOf(p) = b})

\* C18: after every load and rescan the module list has exactly one Module
\* per directory bucket of the changed paths, each with heat
\* min(100, 10 * count) for the count of its bucket (so within 0..100 and
\* monotonic in the count), in order of non-increasing heat.
C18_ModuleHeat ==
    source.kind # "None" =>
        /\ Len(modules) = Cardinality({BucketOf(p) : p \in ChangedPaths})
        /\ {modules[i].name : i \in 1..Len(modules)} =
                {BucketOf(p) : p \in ChangedPaths}
        /\ \A i \in 1..Len(modules) :
                /\ modules[i].heat =
                        IF 10 * BucketSize(modules[i].name) < 100
                        THEN 10 * BucketSize(modules[i].name) ELSE 100
                /\ modules[i].heat \in 0..100
        /\ \A i, j \in 1..Len(modules) :
                /\ i < j => modules[i].heat >= modules[j].heat
                /\ BucketSize(modules[i].name) <= BucketSize(modules[j].name)
                        => modules[i].heat <= modules[j].heat

\* C18 witness: a rescan of a repository with 26 changed files in one
\* directory, where 10 * count no longer fits in 8 bits
C18_Witness ==
    /\ last_op = "toggle_stage"
    /\ source.kind = "Local"
    /\ \E i \in 1..Len(modules) :
            /\ BucketSize(modules[i].name) >= 26
            /\ modules[i].heat = 100

\* the diff of entry i of the entry list under context size c, with the
\* trailer of a symbol row
EntryDiff(i, c) ==
    (IF source.kind = "Local"
     THEN local_diff_lines(source.repo, At(structures, i).path, c)
     ELSE IF At(structures, i).path \in DOMAIN source.file_diffs
          THEN source.file_diffs[At(structures, i).path]
          ELSE <<NoDiffLine>>)
    \o (IF At(structures, i).is_file THEN <<>>
        ELSE <<TrailerLine(At(structures, i).line_no.val)>>)

\* C19: at Logic level, next, previous, increase_context and decrease_context
\* leave in the buffer the diff of the entry the buffer showed before the
\* step: some entry has the old buffer as its diff under the old context size
\* and the new buffer as its diff under the new one.
C19_LogicKeepsEntry ==
    [][(/\ zoom_level = "Logic"
        /\ source.kind # "None"
        /\ last_op' \in {"next", "previous", "increase_context",
                         "decrease_context"}) =>
            \E i \in 0..(Len(structures) - 1) :
                /\ logic_view_content = EntryDiff(i, context_lines)
                /\ logic_view_content' = EntryDiff(i, context_lines')]_vars

\* C20: whenever the stage key reaches the read of
\* filtered_structure_indices[selected_index] in toggle_stage (a Local source
\* and a non-empty filtered list), selected_index is below the length of the
\* list, and the key press does not abort the process on that read.
C20_StageInBounds ==
    [][(/\ last_op' \in StageOps
        /\ source.kind = "Local"
        /\ filtered_structure_indices # <<>>) =>
            selected_index < Len(filtered_structure_indices)]_vars

\* the positions of the header lines of raw, and of the header of path p
HeaderAt(raw) == {i \in 1..Len(raw) : starts_with(raw[i], DiffGit)}

HeaderOf(raw, p) == {i \in 1..Len(raw) : raw[i] = Header(p)}

\* the lines of raw from position h up to the next header line or the end
Section(raw, h) ==
    LET later == {i \in HeaderAt(raw) : i > h}
        stop  == IF later = {} THEN Len(raw)
                 ELSE (CHOOSE i \in later : \A j \in later : i <= j) - 1
    IN  SubSeq(raw, h, stop)

\* C21: split_diff maps every path whose header line occurs exactly once in
\* the diff text to the lines from that header up to the next header or the
\* end of the text, in order and with no other line.
C21_SectionExact ==
    source.kind = "GitHub" =>
        \A k \in 1..Len(SplitPaths) :
            Cardinality(HeaderOf(source.raw_diff, SplitPaths[k])) = 1 =>
                /\ SplitPaths[k] \in DOMAIN source.file_diffs
                /\ source.file_diffs[SplitPaths[k]] =
                        Section(source.raw_diff,
                                CHOOSE h \in HeaderOf(source.raw_diff, SplitPaths[k]) :
                                    TRUE)

\* C21 restricted to a path that does not begin with "b/": a text with a line
\* before its first header still breaks it
C21_SectionExactPlainPath ==
    source.kind = "GitHub" =>
        (Cardinality(HeaderOf(source.raw_diff, <<"x">>)) = 1 =>
            /\ <<"x">> \in DOMAIN source.file_diffs
            /\ source.file_diffs[<<"x">>] =
                    Section(source.raw_diff,
                            CHOOSE h \in HeaderOf(source.raw_diff, <<"x">>) : TRUE))

\* C22: with a GitHub source every changed path of the pull request is a key
\* of the mapping, its section begins with its own header line, and a
\* resolution of its entry at Structure level leaves that section in the
\* buffer, not the placeholder line.
C22_KeyIsPath ==
    source.kind = "GitHub" =>
        /\ \A i \in 1..Len(structures) :
                Cardinality(HeaderOf(source.raw_diff, structures[i].path)) = 1 =>
                    /\ structures[i].path \in DOMAIN source.file_diffs
                    /\ source.file_diffs[structures[i].path][1] =
                            Header(structures[i].path)
        /\ (/\ last_op \in {"new", "next", "previous"}
            /\ zoom_level \in {"Galaxy", "Structure"}
            /\ filtered_structure_indices # <<>>
            /\ selected_index < Len(filtered_structure_indices)
            /\ Cardinality(HeaderOf(source.raw_diff, SelectedItem.path)) = 1) =>
                logic_view_content # <<NoDiffLine>>

\* C23: in every reachable state of a loaded session the filtered indices are
\* strictly increasing, each is an index into the current entry list, and the
\* list is the filter recomputed from the current entries and the current
\* query.
C23_FilterCurrent ==
    source.kind # "None" =>
        /\ StrictlyAscending(filtered_structure_indices)
        /\ Elements(filtered_structure_indices) \subseteq 0..(Len(structures) - 1)
        /\ Elements(filtered_structure_indices) =
                {i \in 0..(Len(structures) - 1) :
                    search_query = <<>> \/ Matches(At(structures, i).text, search_query)}

\* C23 witness: a stage toggle under a committed query replaced the entries
\* and left a filter that hides one of them
C23_Witness ==
    /\ last_op = "toggle_stage"
    /\ search_query # <<>>
    /\ filtered_structure_indices # <<>>
    /\ Len(filtered_structure_indices) < Len(structures)

\* the steps in which load_diff runs: every update_search, zoom_in from
\* Galaxy, a move at Structure level, a context change at Logic level
DiffPass ==
    \/ last_op' \in {"push", "pop", "enter_search", "cancel_search",
                     "toggle_stage"}
    \/ last_op' = "zoom_in" /\ zoom_level = "Galaxy"
    \/ /\ last_op' \in {"next", "previous"}
       /\ zoom_level = "Structure"
       /\ selected_index' # selected_index
    \/ /\ last_op' \in {"increase_context", "decrease_context"}
       /\ zoom_level = "Logic"
       /\ source.kind = "Local"

\* C24: a diff-resolution pass that resolves an entry leaves in the buffer
\* exactly the resolved lines of that entry, followed by exactly one trailer
\* line naming line_no if and only if the entry is a symbol row, and nothing
\* of the previous buffer; a second pass for the same selection leaves the
\* state as the first one did.
C24_BufferReplaced ==
    [][(/\ DiffPass
        /\ source'.kind # "None"
        /\ filtered_structure_indices' # <<>>) =>
            /\ selected_index' < Len(filtered_structure_indices')
            /\ logic_view_content' = SelectedDiff'
            /\ SelectedItem'.is_file =>
                    \A k \in 1..Len(logic_view_content') :
                        logic_view_content'[k] #
                            TrailerLine(SelectedItem'.line_no.val)
            /\ ~SelectedItem'.is_file =>
                    Cardinality({k \in 1..Len(logic_view_content') :
                                    logic_view_content'[k] =
                                        TrailerLine(SelectedItem'.line_no.val)}) = 1
            /\ load_diff(app') = app']_vars

\* C24 witness: a move at Structure level resolved a symbol row, whose diff
\* ends with the trailer
C24_Witness ==
    /\ last_op = "next"
    /\ zoom_level = "Structure"
    /\ filtered_structure_indices # <<>>
    /\ selected_index < Len(filtered_structure_indices)
    /\ ~SelectedItem.is_file
    /\ Len(logic_view_content) >= 2
    /\ logic_view_content[Len(logic_view_content)] =
            TrailerLine(SelectedItem.line_no.val)

\* C25: next and previous at Galaxy or Logic level leave the diff buffer, the
\* filtered indices, the query, the zoom level and the context size as they
\* were; at Structure level a move that changes selected_index leaves the diff
\* of the newly selected entry in the buffer, and a call that does not change
\* selected_index changes nothing.
C25_MoveResolvesAtStructure ==
    [][last_op' \in {"next", "previous"} =>
            /\ zoom_level \in {"Galaxy", "Logic"} =>
                    /\ logic_view_content' = logic_view_content
                    /\ filtered_structure_indices' = filtered_structure_indices
                    /\ search_query' = search_query
                    /\ zoom_level' = zoom_level
                    /\ context_lines' = context_lines
            /\ (zoom_level = "Structure" /\ selected_index' # selected_index) =>
                    /\ selected_index' < Len(filtered_structure_indices')
                    /\ logic_view_content' = SelectedDiff'
                    /\ filtered_structure_indices' = filtered_structure_indices
                    /\ zoom_level' = zoom_level
            /\ (zoom_level = "Structure" /\ selected_index' = selected_index) =>
                    app' = app]_vars

\* C25 witness: previous moved the scroll position back inside a diff of
\* several lines at Logic level
C25_Witness ==
    /\ last_op = "previous"
    /\ zoom_level = "Logic"
    /\ selected_index > 0
    /\ selected_index + 1 < Len(logic_view_content)

\* C26: with a Local source, in every reachable state the file count in
\* dashboard_info.stats is the number of file rows of the current entry list.
C26_StatsCountFiles ==
    source.kind = "Local" =>
        dashboard_info.stats =
            NumStr(Cardinality({i \in 1..Len(structures) : structures[i].is_file}))
                \o <<" files changed">>

\* toggle_stage passes its guards: a Local source, a selection inside a
\* non-empty filtered list, a file row
StageReachesIndex ==
    /\ source.kind = "Local"
    /\ filtered_structure_indices # <<>>
    /\ selected_index < Len(filtered_structure_indices)
    /\ SelectedItem.is_file

\* the call named by fault lies on the path toggle_stage takes for the
\* selected row
OnStagePath(fault) ==
    \/ fault \in {"index", "write"}
    \/ /\ SelectedItem.is_staged
       /\ IF source.repo.has_head THEN fault \in {"peel", "reset"}
          ELSE fault = "remove"
    \/ ~SelectedItem.is_staged /\ fault = "add"

\* C27: when obtaining the index, the add, the reset, the remove or the index
\* write fails, toggle_stage aborts without the rescan and the re-filter:
\* modules, entries, filtered indices, selected_index, diff buffer, query and
\* zoom level are as they were before the key press.
C27_FailedStageKeepsState ==
    [][/\ last_op' = "panic" =>
            /\ run' = "panicked"
            /\ modules' = modules
            /\ structures' = structures
            /\ filtered_structure_indices' = filtered_structure_indices
            /\ selected_index' = selected_index
            /\ logic_view_content' = logic_view_content
            /\ search_query' = search_query
            /\ zoom_level' = zoom_level
       /\ StageReachesIndex =>
            \A fault \in Faults : \A order \in scan_orders(source.repo) :
                OnStagePath(fault) =>
                    toggle_stage_under(app, order, fault) =
                        [app |-> app, outcome |-> "panic"]]_vars

\* C27 witness: the stage key on a staged file row at Structure level ended
\* in the abort
C27_Witness ==
    /\ last_op = "panic"
    /\ run = "panicked"
    /\ zoom_level = "Structure"
    /\ StageReachesIndex
    /\ SelectedItem.is_staged

\* C28: a rescan after staging that sees the same changed files as before
\* leaves the same sequence of modules, modules of equal heat in the same
\* relative order included.
C28_ModulesRepeatable ==
    [][(/\ last_op' = "toggle_stage"
        /\ ChangedPaths' = ChangedPaths) => modules' = modules]_vars

\* C29: whenever zoom_level is Logic the filtered list is non-empty; scrolling,
\* context changes and stage toggles at Logic level keep it so.
C29_LogicHasEntry ==
    zoom_level = "Logic" => filtered_structure_indices # <<>>

\* C30: in every state reached through handle_event, Editing mode implies
\* Structure level: the search is entered only by '/' at Structure level, and
\* a key press received in Editing mode does not change zoom_level, is not
\* handled by next, previous, toggle_stage or a context change, and leaves
\* context_lines and the repository as they were.
C30_EditingAtStructure ==
    [][/\ input_mode' = "Editing" => zoom_level' = "Structure"
       /\ (input_mode = "Normal" /\ input_mode' = "Editing") =>
            /\ last_op' = "enter_search"
            /\ zoom_level = "Structure"
       /\ input_mode = "Editing" =>
            /\ zoom_level' = zoom_level
            /\ context_lines' = context_lines
            /\ source' = source
            /\ last_op' \in {"exit_search", "cancel_search", "pop", "push", "none"}
            /\ last_op' \in {"exit_search", "none"} =>
                    selected_index' = selected_index]_vars

\* C30 witness: a character typed in Editing mode narrowed the filter while
\* the session stayed at Structure level
C30_Witness ==
    /\ input_mode = "Editing"
    /\ zoom_level = "Structure"
    /\ last_op = "push"
    /\ search_query # <<>>
    /\ Len(filtered_structure_indices) < Len(structures)

\* events that are not a key press: the release of 'q' and of Esc
Releases ==
    {[press |-> FALSE, code |-> "Char", ch |-> "q"],
     [press |-> FALSE, code |-> "Esc", ch |-> ""]}

\* C31: handle_event returns false exactly for a press of 'q' or Esc received
\* in Normal mode; in Editing mode 'q' is appended to the query and Esc only
\* cancels the search, so no step taken in Editing mode ends the session, and
\* an Esc after the cancelling one, now in Normal mode, is what quits.
C31_QuitOnlyFromNormal ==
    [][/\ run' = "quit" <=> KeyQuit
       /\ KeyQuit => app' = app
       /\ \A ev \in Releases : handle_event(app, ev, NoOrder).continue
       /\ input_mode = "Editing" =>
            /\ run' = "running"
            /\ Handle(Press("Char", "q"), NoOrder) =>
                    /\ search_query' = Append(search_query, "q")
                    /\ input_mode' = "Editing"
            /\ KeyCancel =>
                    /\ app' = cancel_search(app)
                    /\ input_mode' = "Normal"
                    /\ search_query' = <<>>
                    /\ ~handle_event(app', Press("Esc", ""), NoOrder).continue]_vars

\* C31 witness: Esc in Normal mode ended a session that had been through a
\* search at Structure level and kept its committed query
C31_Witness ==
    /\ run = "quit"
    /\ last_op = "quit"
    /\ input_mode = "Normal"
    /\ zoom_level = "Structure"
    /\ search_query # <<>>

====
